---- MODULE Spec2Model ----
(***************************************************************************)
(* Call queue, call worker and CallProcessor of the vapi-queue-system.     *)
(*                                                                         *)
(* The call queue is a BullMQ queue shared through Redis by every process  *)
(* that constructs a QueueManager.  A process holds one call Worker of     *)
(* concurrency 1; its handler is CallProcessor.process, an async function  *)
(* whose awaits are the steps of the model.  The clock, the tenant record  *)
(* read from the store, the voice service and the outcome of every store   *)
(* write are inputs, drawn anew at the step that reads them.               *)
(*                                                                         *)
(* Times of day are minutes since midnight, delays are milliseconds,       *)
(* priorities are hundredths (1.00 is 100, 1.01 is 101).                   *)
(*                                                                         *)
(* Spec is the running call queue.  SpecEnqueue, SpecSchedule,             *)
(* SpecScheduler and SpecCleanup take one part of the system alone, over   *)
(* wider inputs: POST /queue-calls, the schedule lookups, the scheduler    *)
(* jobs and the queue cleanup.  SpecPause and SpecAdmin are the server's   *)
(* call queue with pause and resume, and with the dashboard's retry and    *)
(* remove.  SpecLifecycle is the server process from startServer to its    *)
(* exit, SpecEmail one email job, SpecReport the statistics of a report.   *)
(***************************************************************************)
EXTENDS Integers, Sequences, FiniteSets, TLC

VARIABLES
    instance,   \* per process: QueueManager.instance has been constructed
    jobs,       \* the call queue: job id (index) -> BullMQ job
    run,        \* per process: the call worker's handler invocation
    records,    \* the CallQueueDone collection (CallAttemptRecords)
    calls,      \* log of the invocations of makeCall
    faults,     \* faults of the environment so far
    http,       \* the last POST /queue-calls exchange: request and response
    slots,      \* a schedule lookup: its inputs and what the lookups returned
    sched,      \* the last run of a scheduler job: its inputs and outcome
    emailQueue, \* the email queue: the EmailJobs added, in order
    entries,    \* per queue: how many entries of each state and age it holds
    proc,       \* the server process: startServer, its handlers, shutdown
    paused,     \* the call queue is paused
    mail,       \* a run of EmailProcessor.process: its job, the files, its outcome
    report      \* a list of call records and the statistics computed from it

\* the variables the call queue's steps leave alone
ops == <<proc, paused, mail, report>>

aux == <<http, slots, sched, emailQueue, entries, ops>>

vars == <<instance, jobs, run, records, calls, faults, aux>>

----------------------------------------------------------------------------
(* Bounds *)

\* Jobs ever put on the call queue (bulk enqueue and successors together).
MaxJobs == 2

\* Contacts of one bulk request.
MaxBulk == 2

\* Handler invocations of the call workers, all jobs together.
MaxRuns == 3

\* Faults of the environment (a rejected store write, an expired job lock),
\* all runs together.
MaxFaults == 1

\* EmailJobs on the email queue while scheduler jobs are run.
MaxEmails == 2

\* Longest list of contacts, of every kind of entry, in a request to
\* POST /queue-calls taken alone.
MaxContacts == 2

\* Calls of QueueManager.getInstance in the server process.
MaxGets == 3

\* Distinct signals and uncaught faults reaching the server process.
MaxEvents == 2

\* Longest list of call records, of every kind of record, in a report.
MaxReportCalls == 2

----------------------------------------------------------------------------
(* Program constants *)

\* DEFAULT_JOB_OPTIONS.attempts
Attempts == 3

\* DEFAULT_JOB_OPTIONS.backoff.delay
BackoffDelay == 5000

\* Worker option concurrency of the call worker
CallConcurrency == 1

\* Worker option maxStalledCount, left at BullMQ's default
MaxStalledCount == 1

\* delay of the re-enqueue when the voice service is busy
BusyDelay == 15000

\* stagger of the bulk enqueue, per index
StaggerMs == 1000

\* priority tie-break of the bulk enqueue, per index (0.01, in hundredths)
PriorityStep == 1

\* the `|| 1` default priority (1.00, in hundredths)
DefaultPriority == 100

\* queue.clean(grace, limit): at most this many entries a call
CleanLimit == 100

\* defaultJobOptions: a queue keeps this many completed entries at most
RemoveOnComplete == 100

\* and this many failed ones
RemoveOnFail == 50

\* milliseconds per minute, minutes per day
MsPerMinute == 60000

MinutesPerDay == 1440

----------------------------------------------------------------------------
(* Values *)

Procs == {"server", "dashboard"}

Null == "null"

Undefined == "undefined"

\* null or absent, and a value that may be so, as sequences of length 0 and 1
None == <<>>

Some(x) == <<x>>


\* daysToCheck: monday = 0 ... sunday = 6
Days == 0 .. 6

TimesOfDay == {480, 600}

Slot(name, a, s, e) ==
    [slot |-> name, assistantId |-> a, callTimeStart |-> s, callTimeEnd |-> e]

\* weeklySchedule values of the tenant record: day -> slots in entry order
SchedNone == [d \in Days |-> IF d = 1 THEN <<Slot("morning", "a2", 540, 1020)>> ELSE <<>>]

SchedTwoDays ==
    [d \in Days |->
        CASE d = 0 -> <<Slot("morning", "a2", 480, 540), Slot("noon", "a1", 540, 1020),
                        Slot("late", "a1", 1020, 1200)>>
          [] d = 2 -> <<Slot("morning", "a1", 540, 1020)>>
          [] OTHER -> <<>>]

Schedules == {SchedNone, SchedTwoDays}

\* errors: message as the sequence of its words, and code
Err(m, c) == [message |-> m, code |-> c]

ErrNetwork == Err(<<"Call", "failed:", "NETWORK_ERROR">>, Undefined)

ErrInvalid == Err(<<"Invalid", "phone", "number">>, Undefined)

ErrStore == Err(<<"store", "operation", "failed">>, Undefined)

ErrUser == Err(<<"User", "not", "found:", "u1">>, Undefined)

CallErrors == {ErrNetwork, ErrInvalid}

\* outcome of a store write: acknowledged, rejected without effect, or
\* rejected although the store applied it
WriteOutcomes == {"ok", "rejected", "applied_rejected"}

Applied(w) == w \in {"ok", "applied_rejected"}

Acked(w) == w = "ok"

Max(a, b) == IF a >= b THEN a ELSE b

Pow2(n) == IF n <= 0 THEN 1 ELSE IF n = 1 THEN 2 ELSE IF n = 2 THEN 4 ELSE 8

----------------------------------------------------------------------------
(* Schedule resolver (CallProcessor private helpers) *)

\* utils.isWithinCallHours: start inclusive, end exclusive
isWithinCallHours(start, end, tod) == start <= tod /\ tod < end

\* first entry of a day's slots whose assistantId matches, or null
FirstMatch(daySchedule, assistantId) ==
    IF \E i \in 1 .. Len(daySchedule) : daySchedule[i].assistantId = assistantId
    THEN Some(daySchedule[CHOOSE i \in 1 .. Len(daySchedule) :
            /\ daySchedule[i].assistantId = assistantId
            /\ \A k \in 1 .. (i - 1) : daySchedule[k].assistantId # assistantId])
    ELSE None

\* the lookup returning the last matching entry of the day instead of the first
getLastSlotForAssistant(weeklySchedule, assistantId, currentDay) ==
    LET daySchedule == weeklySchedule[currentDay]
        matching == {i \in 1 .. Len(daySchedule) : daySchedule[i].assistantId = assistantId}
    IN  IF matching = {} THEN None
        ELSE Some(daySchedule[CHOOSE i \in matching : \A k \in matching : k <= i])

getCurrentSlotForAssistant(weeklySchedule, assistantId, currentDay) ==
    FirstMatch(weeklySchedule[currentDay], assistantId)

\* the days after currentDay, i = 1..7, that hold a slot of the assistant
DaysAhead(weeklySchedule, assistantId, currentDay) ==
    {i \in 1 .. 7 : FirstMatch(weeklySchedule[(currentDay + i) % 7], assistantId) # None}

findNextAvailableSlot(weeklySchedule, assistantId, currentDay) ==
    LET ahead == DaysAhead(weeklySchedule, assistantId, currentDay) IN
    IF ahead = {} THEN None
    ELSE LET i == CHOOSE x \in ahead : \A y \in ahead : x <= y
             d == (currentDay + i) % 7
             s == FirstMatch(weeklySchedule[d], assistantId)[1]
         IN  Some([day |-> d, slot |-> s.slot, assistantId |-> s.assistantId,
                   callTimeStart |-> s.callTimeStart, callTimeEnd |-> s.callTimeEnd])

\* tomorrow's date at the slot's start time, minus now, floored at 0
calculateDelayToNextSlot(nextSlot, tod) ==
    Max(0, (MinutesPerDay + nextSlot.callTimeStart - tod) * MsPerMinute)

----------------------------------------------------------------------------
(* Error classification *)

includes(message, word) == \E i \in 1 .. Len(message) : message[i] = word

retryableErrors == {"VAPI_BUSY", "NETWORK_ERROR", "TEMPORARY_FAILURE", "RATE_LIMITED"}

\* the test reading the message alone
isRetryableByMessage(error) ==
    \E r \in retryableErrors : includes(error.message, r)

isRetryableError(error) ==
    \E r \in retryableErrors : includes(error.message, r) \/ error.code = r

\* new Error(`Permanent failure: ${error.message}`): a plain Error, no code
PermanentFailure(error) == Err(<<"Permanent", "failure:">> \o error.message, Undefined)

\* an outer catch that throws what it caught
OuterCatchRethrows(error) == error

\* the outer catch of process: what the handler finally throws
OuterCatch(error) == IF isRetryableError(error) THEN error ELSE PermanentFailure(error)

----------------------------------------------------------------------------
(* The call queue (BullMQ) *)

\* JavaScript `data.field || d` on an optional number: an absent field and 0
\* are falsy
OrElse(data, field, d) ==
    IF field \in DOMAIN data /\ data[field] # 0 THEN data[field] ELSE d

NoError == Err(<<>>, Undefined)

IdleRun == [pc |-> "idle", job |-> 0, start |-> 0, err |-> NoError, result |-> Null]

\* Queue.add: a fresh job, delayed when its delay is positive
NewJob(data, opts, parent) ==
    [data |-> data, opts |-> opts, attemptsMade |-> 0, starts |-> 0, stalled |-> 0,
     state |-> IF opts.delay > 0 THEN "delayed" ELSE "waiting",
     returnvalue |-> Null, failedReason |-> <<>>, backoff |-> 0, parent |-> parent]

\* addCallJob with the spread written first: the defaults win over the options
addCallJobDefaultsWin(data, options, parent) ==
    NewJob(data,
           [priority |-> OrElse(data, "priority", DefaultPriority),
            delay |-> OrElse(data, "delay", 0)] @@ options,
           parent)

\* QueueManager.addCallJob: options override the defaults taken from data
addCallJob(data, options, parent) ==
    NewJob(data,
           options @@ [priority |-> OrElse(data, "priority", DefaultPriority),
                       delay |-> OrElse(data, "delay", 0)],
           parent)

\* the job of index i (from 0) of POST /queue-calls, as addBulkCallJobs adds it
BulkJob(contact, i, assistantId, priority, delay) ==
    LET data == [userId |-> "u1", assistantId |-> assistantId, contact |-> contact,
                 priority |-> priority + i * PriorityStep,
                 metadata |-> [source |-> "api"]]
    IN  NewJob(data,
               [delay |-> delay + i * StaggerMs] @@
               [priority |-> OrElse(data, "priority", DefaultPriority),
                delay |-> OrElse(data, "delay", 0)],
               <<0, 0>>)

BulkJobs(contacts, assistantId, priority, delay) ==
    [i \in 1 .. Len(contacts) |-> BulkJob(contacts[i], i - 1, assistantId, priority, delay)]

JobIds == 1 .. Len(jobs)

Waiting == {j \in JobIds : jobs[j].state = "waiting"}

\* the next job a worker fetches: lowest priority value, oldest first
NextJob ==
    CHOOSE j \in Waiting :
        \A k \in Waiting :
            \/ jobs[j].opts.priority < jobs[k].opts.priority
            \/ jobs[j].opts.priority = jobs[k].opts.priority /\ j <= k

InFlight(p) == IF run[p].pc = "idle" THEN 0 ELSE 1

RECURSIVE StartsUpTo(_)
StartsUpTo(n) == IF n = 0 THEN 0 ELSE jobs[n].starts + StartsUpTo(n - 1)

\* handler invocations so far
TotalStarts == StartsUpTo(Len(jobs))

\* a thrown error the broker does not retry: only BullMQ's UnrecoverableError,
\* which CallProcessor never throws (its permanent failure is a plain Error)
Unrecoverable(error) == FALSE

\* exponential backoff before attempt attemptsMade + 1
Backoff(attemptsMade) == BackoffDelay * Pow2(attemptsMade - 1)

\* the worker still holds the job's lock
HoldsLock(p) ==
    /\ jobs[run[p].job].state = "active"
    /\ jobs[run[p].job].starts = run[p].start

\* the broker's bookkeeping when a handler returned or threw
Settle(job, result, error) ==
    IF result # "threw"
    THEN [job EXCEPT !.state = "completed", !.returnvalue = result]
    ELSE LET made == job.attemptsMade + 1 IN
         IF made < Attempts /\ ~Unrecoverable(error)
         THEN [job EXCEPT !.attemptsMade = made, !.state = "delayed",
                          !.failedReason = error.message, !.backoff = Backoff(made)]
         ELSE [job EXCEPT !.attemptsMade = made, !.state = "failed",
                          !.failedReason = error.message]

\* the auxiliary variables while idle
NoExchange == [status |-> 0]

NoLookup == [phase |-> "none"]

NoRun == [type |-> "none"]

NoEntries == [q \in {} |-> 0]

\* the workers, event observers and queue handles a QueueManager holds
Workers == {"callWorker", "emailWorker", "schedulerWorker"}

Observers == {"callQueueEvents", "emailQueueEvents", "schedulerQueueEvents"}

Handles == {"callQueue", "emailQueue", "schedulerQueue"}

Resources == Workers \cup Observers \cup Handles

\* the recurring jobs of scheduleRecurringJobs, in the order of its calls
RecurringJobs ==
    << [name |-> "daily-report", type |-> "daily_report", cron |-> "0 6 * * *"],
       [name |-> "weekly-report", type |-> "weekly_report", cron |-> "0 8 * * 0"],
       [name |-> "monthly-report", type |-> "monthly_report", cron |-> "0 9 1 * *"],
       [name |-> "daily-cleanup", type |-> "cleanup", cron |-> "0 2 * * *"],
       [name |-> "health-check", type |-> "health_check", cron |-> "*/30 * * * *"] >>

\* the server process as node starts it: nothing constructed, no handler
\* registered, startServer about to run
Fresh ==
    [pc |-> "validateEnv", built |-> 0, gets |-> 0, returned |-> {},
     registered |-> <<>>, listening |-> FALSE, handlers |-> FALSE,
     inflight |-> FALSE, events |-> {}, shutdown |-> "none", shutdowns |-> 0, closed |-> {},
     broker |-> "open", store |-> "closed", exit |-> None]

\* the server process after a start without fault
Started ==
    [Fresh EXCEPT !.pc = "started", !.built = 1, !.gets = 1, !.returned = {1},
                  !.registered = RecurringJobs, !.listening = TRUE,
                  !.handlers = TRUE, !.store = "open"]

NoMail == [status |-> "none"]

NoReport == [calls |-> <<>>]

\* the server started, the call queue not paused, no email run, no report
OpsIdle ==
    /\ proc = Started
    /\ paused = FALSE
    /\ mail = NoMail
    /\ report = NoReport

----------------------------------------------------------------------------
(* Initial state: the server has started and holds its QueueManager *)

Init ==
    /\ OpsIdle
    /\ instance = [p \in Procs |-> p = "server"]
    /\ jobs = <<>>
    /\ run = [p \in Procs |-> IdleRun]
    /\ records = {}
    /\ calls = {}
    /\ faults = 0
    /\ http = NoExchange
    /\ slots = NoLookup
    /\ sched = NoRun
    /\ emailQueue = <<>>
    /\ entries = NoEntries

----------------------------------------------------------------------------
(* Processes and producers *)

\* startDashboard: a second process constructs its own QueueManager
StartDashboard ==
    /\ ~instance["dashboard"]
    /\ instance' = [instance EXCEPT !["dashboard"] = TRUE]
    /\ UNCHANGED <<aux, jobs, run, records, calls, faults>>

\* String.prototype.trim on a string given as its sequence of characters
\* (a word stands for its characters, " " for one blank)
RECURSIVE trimStart(_)
trimStart(str) == IF str # <<>> /\ Head(str) = " " THEN trimStart(Tail(str)) ELSE str

RECURSIVE trimEnd(_)
trimEnd(str) ==
    IF str # <<>> /\ str[Len(str)] = " " THEN trimEnd(SubSeq(str, 1, Len(str) - 1)) ELSE str

trim(str) == trimEnd(trimStart(str))

\* a JSON value read as a string field: a string, or anything else
Str(chars) == [type |-> "string", chars |-> chars]

NotStr == [type |-> "other", chars |-> <<>>]

\* entries of body.contacts
Contact(name, number) == [kind |-> "object", name |-> name, number |-> number]

Alice == Contact(Str(<<" ", "alice">>), Str(<<"+15550001", " ">>))

Bob == Contact(Str(<<"bob">>), Str(<<"+15550002">>))

Carol == Contact(Str(<<"carol">>), Str(<<"+15550003">>))

Dan == Contact(Str(<<"dan">>), Str(<<"+15550004">>))

Erin == Contact(Str(<<"erin">>), Str(<<"+15550005">>))

BlankName == Contact(Str(<<" ", " ">>), Str(<<"+15550006">>))

NoNumber == Contact(Str(<<"frank">>), NotStr)

NullContact == [kind |-> "null", name |-> NotStr, number |-> NotStr]

\* the filter without its trim: a blank name or number passes
isValidContactUntrimmed(c) ==
    /\ c.name.type = "string"
    /\ c.number.type = "string"
    /\ c.name.chars # <<>>
    /\ c.number.chars # <<>>

\* the filter of POST /queue-calls: name and number are non-blank strings
isValidContact(c) ==
    /\ c.name.type = "string"
    /\ c.number.type = "string"
    /\ trim(c.name.chars) # <<>>
    /\ trim(c.number.chars) # <<>>

\* reading c.name of a null entry throws a TypeError inside the filter
filterThrows(contacts) == \E i \in 1 .. Len(contacts) : contacts[i].kind = "null"

\* req.body of POST /queue-calls; an absent field is None
Body(clerkId, contacts, assistantId, priority, delay) ==
    [clerkId |-> clerkId, contacts |-> contacts, assistantId |-> assistantId,
     priority |-> priority, delay |-> delay]

\* contacts that is an array, and contacts that is not
Array(items) == [isArray |-> TRUE, items |-> items]

NotArray == [isArray |-> FALSE, items |-> <<>>]

\* destructuring default: `field = d` applies to an absent field only
Default(opt, d) == IF opt = None THEN d ELSE opt[1]

\* User.findById(clerkId): rejected, null, or the tenant with what it holds
\* of twilioConfig
UserThrows == [outcome |-> "throws", sid |-> FALSE, authToken |-> FALSE, phoneNumber |-> FALSE]

UserNull == [outcome |-> "null", sid |-> FALSE, authToken |-> FALSE, phoneNumber |-> FALSE]

UserWith(sid, authToken, phoneNumber) ==
    [outcome |-> "found", sid |-> sid, authToken |-> authToken, phoneNumber |-> phoneNumber]

Response(status, added) == [status |-> status, added |-> added]

\* the jobs of a request, each with the request's priority field and its index
RequestJobs(body, valid) ==
    [i \in 1 .. Len(valid) |->
        [req |-> [priority |-> body.priority, index |-> i - 1]] @@
        BulkJobs([k \in 1 .. Len(valid) |->
                    [name |-> trim(valid[k].name.chars),
                     number |-> trim(valid[k].number.chars)]],
                 body.assistantId[1],
                 Default(body.priority, DefaultPriority),
                 Default(body.delay, 0))[i]]

\* POST /queue-calls: the status it answers and the jobs it adds
PostQueueCalls(body, user) ==
    IF body.clerkId = None \/ ~body.contacts.isArray \/ body.assistantId = None
    THEN Response(400, <<>>)
    ELSE IF user.outcome = "throws" THEN Response(500, <<>>)
    ELSE IF user.outcome = "null" THEN Response(404, <<>>)
    ELSE IF ~user.sid \/ ~user.authToken \/ ~user.phoneNumber THEN Response(400, <<>>)
    ELSE IF filterThrows(body.contacts.items) THEN Response(500, <<>>)
    ELSE LET validContacts == SelectSeq(body.contacts.items, isValidContact) IN
         IF validContacts = <<>> THEN Response(400, <<>>)
         ELSE Response(200, RequestJobs(body, validContacts))

\* the requests the running system is given: one valid contact at the
\* default priority, after a blank one, or at 2.00; two valid contacts around
\* a blank one, at the default priority or at priority 0
BulkRequests ==
    {b \in {Body(Some("u1"), Array(<<BlankName, Alice>>), Some("a1"), None, None),
            Body(Some("u1"), Array(<<Alice>>), Some("a1"), Some(200), None),
            Body(Some("u1"), Array(<<Alice, BlankName, Bob>>), Some("a1"), None, None),
            Body(Some("u1"), Array(<<Alice, BlankName, Bob>>), Some("a1"), Some(0), Some(0))} :
        Len(b.contacts.items) <= MaxBulk + 1}

\* what POST /queue-calls answers to them for a tenant with its credentials
BulkResponses == {PostQueueCalls(b, UserWith(TRUE, TRUE, TRUE)) : b \in BulkRequests}

\* POST /queue-calls, answered 200
QueueCalls ==
    \E res \in BulkResponses :
        /\ res.status = 200
        /\ Len(jobs) + Len(res.added) <= MaxJobs
        /\ jobs' = jobs \o res.added
        /\ UNCHANGED <<aux, instance, run, records, calls, faults>>

\* the delay of a delayed job has elapsed
Promote ==
    \E j \in JobIds :
        /\ jobs[j].state = "delayed"
        /\ jobs' = [jobs EXCEPT ![j].state = "waiting"]
        /\ UNCHANGED <<aux, instance, run, records, calls, faults>>

\* the lock of an active job expires before its worker renews it: the broker
\* puts the job back for redelivery, or fails it once it stalled too often
LockExpire ==
    \E j \in JobIds :
        /\ jobs[j].state = "active"
        /\ faults < MaxFaults
        /\ faults' = faults + 1
        /\ jobs' = [jobs EXCEPT ![j] =
                IF @.stalled + 1 > MaxStalledCount
                THEN [@ EXCEPT !.state = "failed", !.stalled = @ + 1,
                               !.failedReason = <<"job", "stalled">>]
                ELSE [@ EXCEPT !.state = "waiting", !.stalled = @ + 1]]
        /\ UNCHANGED <<aux, instance, run, records, calls>>

\* a call queue whose pause the workers do not heed
fetchesAlways == TRUE

\* Queue.pause holds for every worker of the call queue: none fetches a job
\* until Queue.resume
fetches == ~paused

\* the call worker of process p fetches the next waiting job, while fewer
\* than budget handler runs have started
DequeueWithin(p, budget) ==
    /\ instance[p]
    /\ fetches
    /\ InFlight(p) < CallConcurrency
    /\ Waiting # {}
    /\ TotalStarts < budget
    /\ LET j == NextJob IN
        /\ jobs' = [jobs EXCEPT ![j].state = "active", ![j].starts = @ + 1]
        /\ run' = [run EXCEPT ![p] = [IdleRun EXCEPT !.pc = "check", !.job = j,
                                                  !.start = jobs[j].starts + 1]]
    /\ UNCHANGED <<aux, instance, records, calls, faults>>

Dequeue(p) == DequeueWithin(p, MaxRuns)

----------------------------------------------------------------------------
(* CallProcessor.process, one action per await *)

Job(p) == jobs[run[p].job]

RunId(p) == <<run[p].job, run[p].start>>

Returned(p, result) ==
    [run EXCEPT ![p].pc = "done", ![p].result = result, ![p].err = NoError]

\* an error reaching the outer catch, and leaving it
Threw(p, error) ==
    [run EXCEPT ![p].pc = "done", ![p].result = "threw", ![p].err = OuterCatch(error)]

\* rescheduleForNextSlot re-enqueueing at the default priority
rescheduleAtDefaultPriority(p, weeklySchedule, day, tod) ==
    LET nextSlot == findNextAvailableSlot(weeklySchedule, Job(p).data.assistantId, day) IN
    IF nextSlot # None
    THEN Append(jobs,
                addCallJob(Job(p).data,
                           [delay |-> calculateDelayToNextSlot(nextSlot[1], tod),
                            priority |-> DefaultPriority],
                           RunId(p)))
    ELSE jobs

\* rescheduleForNextSlot adding no job
rescheduleNever(p, weeklySchedule, day, tod) == jobs

\* rescheduleForNextSlot: the queue after it
rescheduleForNextSlot(p, weeklySchedule, day, tod) ==
    LET nextSlot == findNextAvailableSlot(weeklySchedule, Job(p).data.assistantId, day) IN
    IF nextSlot # None
    THEN Append(jobs,
                addCallJob(Job(p).data,
                           [delay |-> calculateDelayToNextSlot(nextSlot[1], tod),
                            priority |-> OrElse(Job(p).opts, "priority", DefaultPriority)],
                           RunId(p)))
    ELSE jobs

\* whether the handler goes on to the availability check
InsideWindow(weeklySchedule, assistantId, day, tod) ==
    LET currentSlot == getCurrentSlotForAssistant(weeklySchedule, assistantId, day) IN
    /\ currentSlot # None
    /\ isWithinCallHours(currentSlot[1].callTimeStart, currentSlot[1].callTimeEnd, tod)

\* User.findById and the window check
CheckWindow(p) ==
    /\ run[p].pc = "check"
    /\ \E found \in BOOLEAN, weeklySchedule \in Schedules, day \in Days, tod \in TimesOfDay :
        IF ~found
        THEN /\ run' = Threw(p, ErrUser)
             /\ jobs' = jobs
        ELSE IF InsideWindow(weeklySchedule, Job(p).data.assistantId, day, tod)
        THEN /\ run' = [run EXCEPT ![p].pc = "probe"]
             /\ jobs' = jobs
        ELSE /\ jobs' = rescheduleForNextSlot(p, weeklySchedule, day, tod)
             /\ Len(jobs') <= MaxJobs
             /\ run' = Returned(p, "rescheduled")
    /\ UNCHANGED <<aux, instance, records, calls, faults>>

\* isVapiBusy, and the re-enqueue when it is
ProbeBusy(p) ==
    /\ run[p].pc = "probe"
    /\ \E busy \in BOOLEAN :
        IF busy
        THEN /\ Len(jobs) < MaxJobs
             /\ jobs' = Append(jobs, addCallJob(Job(p).data, [delay |-> BusyDelay], RunId(p)))
             /\ run' = Returned(p, "delayed")
        ELSE /\ run' = [run EXCEPT ![p].pc = "create"]
             /\ jobs' = jobs
    /\ UNCHANGED <<aux, instance, records, calls, faults>>

\* a record keyed by the job alone, shared by the attempts of the job
NewRecordPerJob(p) ==
    [id |-> <<run[p].job, 1>>, userId |-> Job(p).data.userId,
     agentId |-> Job(p).data.assistantId,
     name |-> Job(p).data.contact.name, number |-> Job(p).data.contact.number,
     status |-> "pending_initiation", reason |-> <<>>, completedAt |-> FALSE,
     hist |-> <<"pending_initiation">>]

\* the document CallQueueDone.create inserts
NewRecord(p) ==
    [id |-> RunId(p), userId |-> Job(p).data.userId, agentId |-> Job(p).data.assistantId,
     name |-> Job(p).data.contact.name, number |-> Job(p).data.contact.number,
     status |-> "pending_initiation", reason |-> <<>>, completedAt |-> FALSE,
     hist |-> <<"pending_initiation">>]

\* CallQueueDone.updateOne({_id}, {$set: ...})
UpdateOne(id, status, reason) ==
    {IF r.id = id
     THEN [r EXCEPT !.status = status, !.reason = reason, !.completedAt = TRUE,
                    !.hist = Append(@, status)]
     ELSE r : r \in records}

\* a store write with outcome w: a rejection is counted
StoreWrite(w) ==
    /\ ~Acked(w) => faults < MaxFaults
    /\ faults' = IF Acked(w) THEN faults ELSE faults + 1

\* CallQueueDone.create
CreateRecord(p) ==
    /\ run[p].pc = "create"
    /\ \E w \in WriteOutcomes :
        /\ StoreWrite(w)
        /\ records' = IF Applied(w) THEN records \cup {NewRecord(p)} ELSE records
        /\ run' = IF Acked(w) THEN [run EXCEPT ![p].pc = "call"] ELSE Threw(p, ErrStore)
    /\ UNCHANGED <<aux, instance, jobs, calls>>

\* makeCall: the external call is placed and succeeds or fails
MakeCall(p) ==
    /\ run[p].pc = "call"
    /\ \E ok \in BOOLEAN, e \in CallErrors :
        /\ ok => e = ErrInvalid
        /\ calls' = calls \cup {[id |-> RunId(p), contact |-> Job(p).data.contact,
                                 ok |-> ok, error |-> IF ok THEN NoError ELSE e]}
        /\ run' = IF ok THEN [run EXCEPT ![p].pc = "markInitiated"]
                        ELSE [run EXCEPT ![p].pc = "markFailed", ![p].err = e]
    /\ UNCHANGED <<aux, instance, jobs, records, faults>>

\* updateOne(status initiated) after the call; its rejection is caught by the
\* catch written for the call
MarkInitiated(p) ==
    /\ run[p].pc = "markInitiated"
    /\ \E w \in WriteOutcomes :
        /\ StoreWrite(w)
        /\ records' = IF Applied(w) THEN UpdateOne(RunId(p), "initiated", <<>>) ELSE records
        /\ run' = IF Acked(w) THEN Returned(p, "completed")
                  ELSE [run EXCEPT ![p].pc = "markFailed", ![p].err = ErrStore]
    /\ UNCHANGED <<aux, instance, jobs, calls>>

\* the catch: updateOne(status failed, reason), then throw callError
MarkFailed(p) ==
    /\ run[p].pc = "markFailed"
    /\ \E w \in WriteOutcomes :
        /\ StoreWrite(w)
        /\ records' = IF Applied(w) THEN UpdateOne(RunId(p), "failed", run[p].err.message)
                      ELSE records
        /\ run' = IF Acked(w) THEN Threw(p, run[p].err) ELSE Threw(p, ErrStore)
    /\ UNCHANGED <<aux, instance, jobs, calls>>

\* the worker hands the handler's outcome to the broker
Finish(p) ==
    /\ run[p].pc = "done"
    /\ jobs' = IF HoldsLock(p)
               THEN [jobs EXCEPT ![run[p].job] = Settle(@, run[p].result, run[p].err)]
               ELSE jobs
    /\ run' = [run EXCEPT ![p] = IdleRun]
    /\ UNCHANGED <<aux, instance, records, calls, faults>>

Handler(p) ==
    \/ CheckWindow(p)
    \/ ProbeBusy(p)
    \/ CreateRecord(p)
    \/ MakeCall(p)
    \/ MarkInitiated(p)
    \/ MarkFailed(p)
    \/ Finish(p)

Next ==
    \/ StartDashboard
    \/ QueueCalls
    \/ Promote
    \/ LockExpire
    \/ \E p \in Procs : Dequeue(p)
    \/ \E p \in Procs : Handler(p)

Spec == Init /\ [][Next]_vars

----------------------------------------------------------------------------
(* The call queue of the server process with its pause and resume, from     *)
(* POST /pause-queue, POST /start-queue and the dashboard's actions.        *)

pauseCallQueue ==
    /\ ~paused
    /\ paused' = TRUE
    /\ UNCHANGED <<instance, jobs, run, records, calls, faults, http, slots, sched,
                   emailQueue, entries, proc, mail, report>>

resumeCallQueue ==
    /\ paused
    /\ paused' = FALSE
    /\ UNCHANGED <<instance, jobs, run, records, calls, faults, http, slots, sched,
                   emailQueue, entries, proc, mail, report>>

NextPause ==
    \/ QueueCalls
    \/ Promote
    \/ Dequeue("server")
    \/ Handler("server")
    \/ pauseCallQueue
    \/ resumeCallQueue

SpecPause == Init /\ [][NextPause]_vars

\* the worker's loop and the awaits of its handler go on: an idle worker of a
\* queue that stays unpaused fetches, and a handler that can step does
SpecPauseFair ==
    /\ SpecPause
    /\ WF_vars(Dequeue("server"))
    /\ WF_vars(Handler("server"))
    /\ WF_vars(Promote)

----------------------------------------------------------------------------
(* The call queue with the dashboard's retry and remove of a call job, by   *)
(* its id, at any moment of the job's life.                                 *)

\* a remove that does not look at the job's lock
removeEvenLocked(job) == [job EXCEPT !.state = "removed"]

\* Job.remove: the broker refuses while a worker holds the job's lock
remove(job) == IF job.state = "active" THEN job ELSE [job EXCEPT !.state = "removed"]

\* Job.retry: the broker refuses a job that is not in the failed set
retry(job) ==
    IF job.state = "failed"
    THEN [job EXCEPT !.state = "waiting", !.failedReason = <<>>]
    ELSE job

\* what the route answers: 404 without the job, 500 when the broker refused
Answer(op, id, after) ==
    [status |-> IF id \notin JobIds \/ jobs[id].state = "removed" THEN 404
                ELSE IF after = jobs[id] THEN 500 ELSE 200,
     op |-> op, id |-> id]

\* POST /admin/api/retry/call/:jobId
AdminRetry ==
    \E id \in 1 .. MaxJobs :
        LET found == id \in JobIds /\ jobs[id].state # "removed"
            after == IF found THEN retry(jobs[id]) ELSE Null
        IN  /\ jobs' = IF found THEN [jobs EXCEPT ![id] = after] ELSE jobs
            /\ http' = Answer("retry", id, after)
            /\ UNCHANGED <<ops, instance, run, records, calls, faults, slots, sched,
                           emailQueue, entries>>

\* DELETE /admin/api/remove/call/:jobId
AdminRemove ==
    \E id \in 1 .. MaxJobs :
        LET found == id \in JobIds /\ jobs[id].state # "removed"
            after == IF found THEN remove(jobs[id]) ELSE Null
        IN  /\ jobs' = IF found THEN [jobs EXCEPT ![id] = after] ELSE jobs
            /\ http' = Answer("remove", id, after)
            /\ UNCHANGED <<ops, instance, run, records, calls, faults, slots, sched,
                           emailQueue, entries>>

\* the server running, the jobs of one request to POST /queue-calls enqueued
InitAdmin ==
    /\ OpsIdle
    /\ instance = [p \in Procs |-> p = "server"]
    /\ jobs \in {res.added : res \in {r \in BulkResponses :
                                        r.status = 200 /\ Len(r.added) <= MaxJobs}}
    /\ run = [p \in Procs |-> IdleRun]
    /\ records = {}
    /\ calls = {}
    /\ faults = 0
    /\ http = NoExchange
    /\ slots = NoLookup
    /\ sched = NoRun
    /\ emailQueue = <<>>
    /\ entries = NoEntries

NextAdmin ==
    \/ Promote
    \/ Dequeue("server")
    \/ Handler("server")
    \/ AdminRetry
    \/ AdminRemove

SpecAdmin == InitAdmin /\ [][NextAdmin]_vars

----------------------------------------------------------------------------
(* POST /queue-calls taken alone: one request, of any shape, to a queue that *)
(* is empty or holds the job of an earlier request                          *)

RawContacts == {Alice, Bob, BlankName, NoNumber, NullContact}

RECURSIVE Lists(_, _)
Lists(S, n) ==
    IF n = 0 THEN {<<>>}
    ELSE Lists(S, n - 1) \cup {Append(l, x) : l \in {m \in Lists(S, n - 1) : Len(m) = n - 1}, x \in S}

ContactLists == Lists(RawContacts, MaxContacts) \cup {<<Alice, Bob, Carol, Dan, Erin>>}

Bodies ==
    {Body(clerkId, contacts, assistantId, priority, delay) :
        clerkId \in {None, Some("u1")},
        contacts \in {NotArray} \cup {Array(l) : l \in ContactLists},
        assistantId \in {None, Some("a1")},
        priority \in {None, Some(0), Some(100)},
        delay \in {None, Some(500)}}

Users ==
    {UserThrows, UserNull, UserWith(TRUE, TRUE, TRUE), UserWith(FALSE, TRUE, TRUE),
     UserWith(TRUE, FALSE, TRUE), UserWith(TRUE, TRUE, FALSE)}

Exchanges ==
    {[body |-> b, user |-> u, res |-> PostQueueCalls(b, u)] : b \in Bodies, u \in Users}

InitEnqueue ==
    /\ OpsIdle
    /\ instance = [p \in Procs |-> p = "server"]
    /\ jobs \in {<<>>,
                 PostQueueCalls(Body(Some("u1"), Array(<<Carol>>), Some("a1"), None, None),
                                UserWith(TRUE, TRUE, TRUE)).added}
    /\ run = [p \in Procs |-> IdleRun]
    /\ records = {}
    /\ calls = {}
    /\ faults = 0
    /\ http = NoExchange
    /\ slots = NoLookup
    /\ sched = NoRun
    /\ emailQueue = <<>>
    /\ entries = NoEntries

\* POST /queue-calls with its response kept
Request ==
    /\ http = NoExchange
    /\ \E x \in Exchanges :
        /\ jobs' = jobs \o x.res.added
        /\ http' = [status |-> x.res.status, body |-> x.body, user |-> x.user,
                    before |-> jobs]
    /\ UNCHANGED <<ops, instance, run, records, calls, faults, slots, sched, emailQueue, entries>>

NextEnqueue == Request

SpecEnqueue == InitEnqueue /\ [][NextEnqueue]_vars

----------------------------------------------------------------------------
(* The schedule lookups taken alone: a weekly schedule and a clock are drawn, *)
(* then the lookups of the window check and of the reschedule are applied    *)

\* a day's slots in entry order: none, one, another assistant's, two out of
\* time order, two overlapping, two identical
DaySchedules ==
    {<<>>,
     <<Slot("morning", "a1", 540, 1020)>>,
     <<Slot("morning", "a2", 540, 1020)>>,
     <<Slot("evening", "a1", 1020, 1200), Slot("morning", "a1", 480, 540)>>,
     <<Slot("morning", "a1", 480, 720), Slot("noon", "a1", 600, 1020)>>,
     <<Slot("morning", "a1", 480, 540), Slot("again", "a1", 480, 540)>>}

\* weekly schedules with slots on two days at most
WeeklySchedules ==
    {[d \in Days |-> IF d = d1 THEN s1 ELSE IF d = d2 THEN s2 ELSE <<>>] :
        d1 \in Days, d2 \in Days, s1 \in DaySchedules, s2 \in DaySchedules}

LookupTimes == {420, 500, 660, 1100}

InitSchedule ==
    /\ OpsIdle
    /\ instance = [p \in Procs |-> p = "server"]
    /\ jobs = <<>>
    /\ run = [p \in Procs |-> IdleRun]
    /\ records = {}
    /\ calls = {}
    /\ faults = 0
    /\ http = NoExchange
    /\ slots \in {[phase |-> "input", weeklySchedule |-> w, assistantId |-> "a1",
                    day |-> d, tod |-> t] :
                        w \in WeeklySchedules, d \in Days, t \in LookupTimes}
    /\ sched = NoRun
    /\ emailQueue = <<>>
    /\ entries = NoEntries

\* process, the window check: the current slot and what becomes of the job
GetCurrentSlot ==
    /\ slots.phase = "input"
    /\ slots' =
        [current |-> getCurrentSlotForAssistant(slots.weeklySchedule, slots.assistantId, slots.day),
         outcome |-> IF InsideWindow(slots.weeklySchedule, slots.assistantId, slots.day, slots.tod)
                     THEN "callable" ELSE "rescheduled"] @@
        [slots EXCEPT !.phase = "current"]
    /\ UNCHANGED <<ops, instance, jobs, run, records, calls, faults, http, sched, emailQueue, entries>>

\* rescheduleForNextSlot: the next slot and the delay to it
FindNextSlot ==
    /\ slots.phase = "current"
    /\ LET nextSlot == findNextAvailableSlot(slots.weeklySchedule, slots.assistantId, slots.day) IN
        slots' =
            [next |-> nextSlot,
             delayMs |-> IF nextSlot = None THEN None
                         ELSE Some(calculateDelayToNextSlot(nextSlot[1], slots.tod))] @@
            [slots EXCEPT !.phase = "next"]
    /\ UNCHANGED <<ops, instance, jobs, run, records, calls, faults, http, sched, emailQueue, entries>>

NextSchedule == GetCurrentSlot \/ FindNextSlot

SpecSchedule == InitSchedule /\ [][NextSchedule]_vars

----------------------------------------------------------------------------
(* The scheduler worker's handler, SchedulerProcessor.process, one run at a *)
(* time.  The call records of the period, the queue counts and the store's  *)
(* reachability are inputs.                                                 *)

SchedulerInit ==
    /\ OpsIdle
    /\ instance = [p \in Procs |-> p = "server"]
    /\ jobs = <<>>
    /\ run = [p \in Procs |-> IdleRun]
    /\ records = {}
    /\ calls = {}
    /\ faults = 0
    /\ http = NoExchange
    /\ slots = NoLookup
    /\ sched = NoRun
    /\ emailQueue = <<>>
    /\ entries = NoEntries

\* a process whose catch logs and returns
processSwallows(status) == "completed"

\* SchedulerProcessor.process around the handler of the job's type: its catch
\* logs and rethrows, a return is passed on
process(status) == status

\* what a run leaves: its type, whether the handler threw, how process ended,
\* what it read, the email queue as it found it, how the run before ended,
\* and the broker's bookkeeping: a run of the type of a job waiting for its
\* retry is that retry
Ran(type, status, input) ==
    LET made == IF sched.type = type /\ sched.state = "delayed"
                THEN sched.attemptsMade + 1 ELSE 1
        out == process(status)
    IN  [type |-> type, threw |-> status = "failed", status |-> out, input |-> input,
         before |-> emailQueue,
         prior |-> IF sched.type = "none" THEN "none" ELSE sched.status,
         attemptsMade |-> made,
         state |-> IF out = "completed" THEN "completed"
                   ELSE IF made < Attempts THEN "delayed" ELSE "failed"]

\* QueueManager.addEmailJob
addEmailJob(data) == Append(emailQueue, data)

\* CallData.aggregate: calls of the period and, among them, successful ones
CallDataSets == {[total |-> t, successful |-> k] : t \in 0 .. 2, k \in 0 .. 1}

processDailyReport ==
    \E dbOk \in BOOLEAN, data \in {x \in CallDataSets : x.successful <= x.total} :
        /\ Len(emailQueue) < MaxEmails
        /\ IF ~dbOk
           THEN /\ sched' = Ran("daily_report", "failed", data)
                /\ UNCHANGED emailQueue
           ELSE IF data.total = 0
           THEN /\ sched' = Ran("daily_report", "completed", data)
                /\ UNCHANGED emailQueue
           ELSE /\ emailQueue' =
                    addEmailJob([type |-> "daily_report", totalCalls |-> data.total,
                                 filePaths |-> IF data.successful > 0 THEN 2 ELSE 1])
                /\ sched' = Ran("daily_report", "completed", data)
        /\ UNCHANGED <<ops, instance, jobs, run, records, calls, faults, http, slots, entries>>

processWeeklyReport ==
    \E dbOk \in BOOLEAN :
        /\ sched' = Ran("weekly_report", IF dbOk THEN "completed" ELSE "failed", dbOk)
        /\ UNCHANGED <<ops, instance, jobs, run, records, calls, faults, http, slots,
                       emailQueue, entries>>

processMonthlyReport ==
    /\ sched' = Ran("monthly_report", "completed", TRUE)
    /\ UNCHANGED <<ops, instance, jobs, run, records, calls, faults, http, slots,
                   emailQueue, entries>>

\* the threshold met at 10 already
stuckJobsFromTen(stats) == stats.active >= 10

stuckJobs(stats) == stats.active > 10

highFailure(stats) == stats.failed > 50

\* healthReport.alerts
alerts(stats, dbOk) ==
    (IF stuckJobs(stats) THEN {"High number of active jobs detected"} ELSE {})
    \cup (IF highFailure(stats) THEN {"High number of failed call jobs"} ELSE {})
    \cup (IF ~dbOk THEN {"Database connectivity issues"} ELSE {})

\* getQueueStats().callQueue: counts read from the broker
CallQueueStats == {[active |-> a, failed |-> f] : a \in {0, 10, 11, 15}, f \in {0, 50, 51, 60}}

processHealthCheck ==
    \E stats \in CallQueueStats, dbOk \in BOOLEAN :
        /\ Len(emailQueue) < MaxEmails
        /\ emailQueue' = IF alerts(stats, dbOk) # {}
                         THEN addEmailJob([type |-> "alert", alerts |-> alerts(stats, dbOk)])
                         ELSE emailQueue
        /\ sched' = Ran("health_check", "completed", [stats |-> stats, dbOk |-> dbOk])
        /\ UNCHANGED <<ops, instance, jobs, run, records, calls, faults, http, slots, entries>>

\* a job whose type tag is none of the five: the default of the switch
processUnknown ==
    /\ sched' = Ran("unknown", "failed", Undefined)
    /\ UNCHANGED <<ops, instance, jobs, run, records, calls, faults, http, slots,
                   emailQueue, entries>>

SchedulerNext ==
    \/ processUnknown
    \/ processDailyReport
    \/ processWeeklyReport
    \/ processMonthlyReport
    \/ processHealthCheck

SpecScheduler == SchedulerInit /\ [][SchedulerNext]_vars

----------------------------------------------------------------------------
(* Queue cleanup taken alone.  A queue is given by how many entries of each *)
(* state it holds, the finished ones split by age: older than the grace of  *)
(* 24 h, or not.                                                            *)

QueueNames == {"call", "email", "scheduler"}

Min(a, b) == IF a <= b THEN a ELSE b

Contents(co, cn, fo, fn, w, d, a) ==
    [completedOld |-> co, completedNew |-> cn, failedOld |-> fo, failedNew |-> fn,
     waiting |-> w, delayed |-> d, active |-> a]

\* contents a queue can hold under removeOnComplete and removeOnFail
QueueContents ==
    {c \in {Contents(co, cn, fo, fn, w, d, a) :
                co \in {0, 60, 100}, cn \in {0, 40}, fo \in {0, 30, 50}, fn \in {0, 20},
                w \in {0, 3}, d \in {0, 2}, a \in {0, 1}} :
        /\ c.completedOld + c.completedNew <= RemoveOnComplete
        /\ c.failedOld + c.failedNew <= RemoveOnFail}

SmallContents == {Contents(0, 0, 0, 0, 0, 0, 0), Contents(60, 40, 30, 20, 3, 2, 1)}

CleanupInit ==
    /\ OpsIdle
    /\ instance = [p \in Procs |-> p = "server"]
    /\ jobs = <<>>
    /\ run = [p \in Procs |-> IdleRun]
    /\ records = {}
    /\ calls = {}
    /\ faults = 0
    /\ http = NoExchange
    /\ slots = NoLookup
    /\ sched = NoRun
    /\ emailQueue = <<>>
    /\ entries \in {[q \in QueueNames |->
                        CASE q = "call" -> c [] q = "email" -> e [] OTHER -> x] :
                     c \in QueueContents, e \in SmallContents, x \in SmallContents}

\* queue.clean(grace, limit) with no type given: completed entries older than
\* the grace, at most limit of them
clean(contents, limit) ==
    [contents EXCEPT !.completedOld = @ - Min(@, limit)]

\* QueueManager.cleanupQueues, from the admin dashboard or from the cleanup
\* scheduler job
cleanupQueues ==
    /\ sched = NoRun
    /\ entries' = [q \in QueueNames |-> clean(entries[q], CleanLimit)]
    /\ sched' = [type |-> "cleanup", status |-> "completed", before |-> entries]
    /\ UNCHANGED <<ops, instance, jobs, run, records, calls, faults, http, slots, emailQueue>>

CleanupNext == cleanupQueues

SpecCleanup == CleanupInit /\ [][CleanupNext]_vars

----------------------------------------------------------------------------
(* The server process taken alone: startServer, QueueManager.getInstance,   *)
(* scheduleRecurringJobs, the handlers of the signals and of the uncaught   *)
(* faults, gracefulShutdown and QueueManager.shutdown.  The environment,    *)
(* the outcome of every await and the arrival of the events are inputs.     *)

Signals == {"SIGTERM", "SIGINT"}

Faults == {"uncaughtException", "unhandledRejection"}

Events == Signals \cup Faults

\* the exit code node gives a process ended by an event nobody handles
DefaultExit(e) == CASE e = "SIGTERM" -> 143 [] e = "SIGINT" -> 130 [] OTHER -> 1

Alive == proc.exit = None

\* process.exit, and the end of a process by an unhandled event: a leased job
\* stays leased
exit(code) == [proc EXCEPT !.exit = Some(code), !.listening = FALSE]

\* a getInstance that constructs at every call
getInstanceAlwaysNew(pr) ==
    [pr EXCEPT !.built = @ + 1, !.gets = @ + 1, !.returned = @ \cup {pr.built + 1}]

\* QueueManager.getInstance: the constructor builds the three queues, the
\* three workers and the three observers; an instance is known by the number
\* of the construction that made it
getInstance(pr) ==
    LET made == IF pr.built = 0 THEN 1 ELSE pr.built
    IN  [pr EXCEPT !.built = made, !.gets = @ + 1, !.returned = @ \cup {made}]

LifecycleInit ==
    /\ proc = Fresh
    /\ paused = FALSE
    /\ mail = NoMail
    /\ report = NoReport
    /\ instance = [p \in Procs |-> FALSE]
    /\ jobs = <<>>
    /\ run = [p \in Procs |-> IdleRun]
    /\ records = {}
    /\ calls = {}
    /\ faults = 0
    /\ http = NoExchange
    /\ slots = NoLookup
    /\ sched = NoRun
    /\ emailQueue = <<>>
    /\ entries = NoEntries

\* what the server process's own steps leave alone
outside == <<jobs, run, records, calls, faults, http, slots, sched, emailQueue,
             entries, paused, mail, report>>

validateEnv ==
    /\ Alive
    /\ proc.pc = "validateEnv"
    /\ \E missing \in BOOLEAN :
        proc' = IF missing THEN exit(1) ELSE [proc EXCEPT !.pc = "connectDB"]
    /\ UNCHANGED <<instance, outside>>

\* startServer's await connectDB(); a rejection reaches its catch
connectDB ==
    /\ Alive
    /\ proc.pc = "connectDB"
    /\ \E ok \in BOOLEAN :
        proc' = IF ok THEN [proc EXCEPT !.pc = "getInstance", !.store = "open"]
                ELSE exit(1)
    /\ UNCHANGED <<instance, outside>>

\* startServer's QueueManager.getInstance()
InitializeQueueManager ==
    /\ Alive
    /\ proc.pc = "getInstance"
    /\ proc' = [getInstance(proc) EXCEPT !.pc = "scheduleRecurringJobs"]
    /\ instance' = [instance EXCEPT !["server"] = TRUE]
    /\ UNCHANGED outside

\* one await queueManager.addSchedulerJob of scheduleRecurringJobs; a
\* rejection reaches its catch, which logs and returns
scheduleRecurringJobs ==
    /\ Alive
    /\ proc.pc = "scheduleRecurringJobs"
    /\ LET k == Len(proc.registered) + 1 IN
        \E ok \in BOOLEAN :
            proc' = IF ok
                    THEN [proc EXCEPT !.registered = Append(@, RecurringJobs[k]),
                                      !.pc = IF k = Len(RecurringJobs)
                                             THEN "listen" ELSE @]
                    ELSE [proc EXCEPT !.pc = "listen"]
    /\ UNCHANGED <<instance, outside>>

\* app.listen and the four process.on, with no await between them
listen ==
    /\ Alive
    /\ proc.pc = "listen"
    /\ proc' = [proc EXCEPT !.pc = "started", !.listening = TRUE, !.handlers = TRUE]
    /\ UNCHANGED <<instance, outside>>

\* QueueManager.getInstance() from an HTTP handler or from a processor
CallGetInstance ==
    /\ Alive
    /\ proc.listening \/ proc.built > 0
    /\ proc.gets < MaxGets
    /\ proc' = getInstance(proc)
    /\ instance' = [instance EXCEPT !["server"] = TRUE]
    /\ UNCHANGED outside

\* the call worker leases a job; a worker that is closing fetches no more
Lease ==
    /\ Alive
    /\ proc.built > 0
    /\ proc.shutdown = "none"
    /\ ~proc.inflight
    /\ proc' = [proc EXCEPT !.inflight = TRUE]
    /\ UNCHANGED <<instance, outside>>

\* the leased job's handler settles
JobEnds ==
    /\ Alive
    /\ proc.inflight
    /\ proc' = [proc EXCEPT !.inflight = FALSE]
    /\ UNCHANGED <<instance, outside>>

\* gracefulShutdown up to its first await: server.close and the call of
\* queueManager.shutdown(), which starts the nine closes at once; shutdowns
\* counts the calls of queueManager.shutdown()
gracefulShutdown ==
    [proc EXCEPT !.listening = FALSE,
                 !.shutdown = IF @ = "none" THEN "closing" ELSE @,
                 !.shutdowns = @ + 1]

\* a signal, an uncaught exception or an unhandled rejection reaches the
\* process: its handler if startServer has registered it, else node's default
Event(e) ==
    /\ Alive
    /\ e \notin proc.events
    /\ Cardinality(proc.events) < MaxEvents
    /\ proc' = [(IF proc.handlers THEN gracefulShutdown ELSE exit(DefaultExit(e)))
                   EXCEPT !.events = @ \cup {e}]
    /\ UNCHANGED <<instance, outside>>

\* one of the nine close() of shutdown's Promise.all settles; a worker's
\* close waits for its job in flight; the first rejection rejects the whole
Close(r) ==
    /\ Alive
    /\ proc.shutdown = "closing"
    /\ r \in Resources \ proc.closed
    /\ r = "callWorker" => ~proc.inflight
    /\ \E ok \in BOOLEAN :
        proc' = IF ok
                THEN [proc EXCEPT !.closed = @ \cup {r},
                                  !.shutdown = IF proc.closed \cup {r} = Resources
                                               THEN "disconnect" ELSE @]
                ELSE [proc EXCEPT !.shutdown = "rejected"]
    /\ UNCHANGED <<instance, outside>>

\* shutdown's redisConnection.disconnect(), after the Promise.all resolved
Disconnect ==
    /\ Alive
    /\ proc.shutdown = "disconnect"
    /\ proc' = [proc EXCEPT !.broker = "closed", !.shutdown = "resolved"]
    /\ UNCHANGED <<instance, outside>>

\* gracefulShutdown after await queueManager.shutdown(): mongoose.disconnect
\* and process.exit(0), or its catch and process.exit(1)
AfterShutdown ==
    /\ Alive
    /\ proc.shutdown \in {"resolved", "rejected"}
    /\ \E ok \in BOOLEAN :
        proc' = IF proc.shutdown = "resolved" /\ ok
                THEN [exit(0) EXCEPT !.store = "closed"]
                ELSE exit(1)
    /\ UNCHANGED <<instance, outside>>

LifecycleNext ==
    \/ validateEnv
    \/ connectDB
    \/ InitializeQueueManager
    \/ scheduleRecurringJobs
    \/ listen
    \/ CallGetInstance
    \/ Lease
    \/ JobEnds
    \/ \E e \in Events : Event(e)
    \/ \E r \in Resources : Close(r)
    \/ Disconnect
    \/ AfterShutdown

SpecLifecycle == LifecycleInit /\ [][LifecycleNext]_vars

----------------------------------------------------------------------------
(* EmailProcessor.process taken alone: one email job, the files on disk and *)
(* the broker's retries of the job.  Whether the mail service accepts the   *)
(* message is an input.                                                     *)

\* job.data.filePaths: absent, or a list of paths
FilePaths == {None, Some(<<>>), Some(<<"a.xlsx">>), Some(<<"a.xlsx", "b.xlsx">>)}

\* job.data.metadata?.cleanup: undefined, true, false, or the number 0
Cleanups == {"undefined", "true", "false", "0"}

\* files a disk can hold: the attachments and a file of somebody else
Files == {"a.xlsx", "b.xlsx", "other.txt"}

Range(seq) == {seq[i] : i \in DOMAIN seq}

\* the paths of a job, none when filePaths is absent
PathsOf(job) == IF job.filePaths = None THEN {} ELSE Range(job.filePaths[1])

\* a cleanup whatever metadata.cleanup says
cleanupAlways(cleanup) == TRUE

\* metadata?.cleanup !== false
shouldCleanup(cleanup) == cleanup # "false"

\* cleanupFiles: unlinkSync of every path that exists
cleanupFiles(disk, paths, should) == IF should THEN disk \ paths ELSE disk

\* the global Error the test after the send reads: a function, hence truthy
ErrorIsTruthy == TRUE

InitEmail ==
    /\ mail \in {[status |-> "none", job |-> [filePaths |-> f, cleanup |-> c],
                   found |-> d, disk |-> d, sent |-> 0, attemptsMade |-> 0,
                   state |-> "waiting"] :
                  f \in FilePaths, c \in Cleanups, d \in SUBSET Files}
    /\ proc = Started
    /\ paused = FALSE
    /\ report = NoReport
    /\ instance = [p \in Procs |-> p = "server"]
    /\ jobs = <<>>
    /\ run = [p \in Procs |-> IdleRun]
    /\ records = {}
    /\ calls = {}
    /\ faults = 0
    /\ http = NoExchange
    /\ slots = NoLookup
    /\ sched = NoRun
    /\ emailQueue = <<>>
    /\ entries = NoEntries

\* EmailProcessor.process and the broker's bookkeeping of its outcome; a
\* delayed job is run again once its backoff has elapsed
processEmail ==
    /\ mail.state \in {"waiting", "delayed"}
    /\ \E accepted \in BOOLEAN :
        LET job == mail.job
            has == job.filePaths # None
            missing == PathsOf(job) \ mail.disk # {}
            sends == ~missing
            threw == missing \/ ~accepted \/ ErrorIsTruthy
            disk == IF threw
                    THEN IF has /\ shouldCleanup(job.cleanup)
                         THEN cleanupFiles(mail.disk, PathsOf(job), TRUE)
                         ELSE mail.disk
                    ELSE IF has
                         THEN cleanupFiles(mail.disk, PathsOf(job),
                                           shouldCleanup(job.cleanup))
                         ELSE mail.disk
            made == mail.attemptsMade + 1
        IN  mail' = [mail EXCEPT
                !.status = IF threw THEN "failed" ELSE "completed",
                !.disk = disk,
                !.sent = IF sends /\ accepted THEN @ + 1 ELSE @,
                !.attemptsMade = IF threw THEN made ELSE @,
                !.state = IF ~threw THEN "completed"
                          ELSE IF made < Attempts THEN "delayed" ELSE "failed"]
    /\ UNCHANGED <<proc, paused, report, instance, jobs, run, records, calls, faults,
                   http, slots, sched, emailQueue, entries>>

NextEmail == processEmail

SpecEmail == InitEmail /\ [][NextEmail]_vars

----------------------------------------------------------------------------
(* The statistics of a report taken alone: generateSummaryStats and the     *)
(* counts of processDailyReport over a list of call records.  A string is   *)
(* the sequence of its characters; durations are seconds; a rate is kept    *)
(* in the unit of its last printed digit.                                   *)

Voicemail == <<"v", "o", "i", "c", "e", "m", "a", "i", "l">>

VoicemailCapital == <<"V", "o", "i", "c", "e", "m", "a", "i", "l">>

VoicemailUpper == <<"V", "O", "I", "C", "E", "M", "A", "I", "L">>

Completed == <<"c", "o", "m", "p", "l", "e", "t", "e", "d">>

\* the lower case of a character
Lower(c) ==
    CASE c = "V" -> "v" [] c = "O" -> "o" [] c = "I" -> "i" [] c = "C" -> "c"
      [] c = "E" -> "e" [] c = "M" -> "m" [] c = "A" -> "a" [] c = "L" -> "l"
      [] OTHER -> c

\* String.prototype.toLowerCase
toLowerCase(str) == [i \in DOMAIN str |-> Lower(str[i])]

\* analysis?.successEvaluation: true, false, undefined, or the string 'true'
Evaluations == {"true", "false", "undefined", "'true'"}

\* durationSeconds: undefined or a number
Durations == {None, Some(10), Some(11)}

\* endedReason: undefined or a string
Reasons == {None, Some(Voicemail), Some(VoicemailUpper), Some(Completed)}

CallKinds ==
    {[successEvaluation |-> e, durationSeconds |-> d, endedReason |-> r] :
        e \in Evaluations, d \in Durations, r \in Reasons}

Call(e, d, r) == [successEvaluation |-> e, durationSeconds |-> d, endedReason |-> r]

\* the lists reported on: every list of up to n records, and three lists of
\* three with durations of 5 and 30 seconds
ReportLists(n) ==
    Lists(CallKinds, n)
    \cup {<<Call("true", Some(30), Some(Completed)),
            Call("true", Some(30), Some(Completed)),
            Call("true", Some(5), Some(Completed))>>,
          <<Call("true", Some(30), Some(Completed)),
            Call("false", Some(30), Some(Completed)),
            Call("true", Some(5), Some(Completed))>>,
          <<Call("true", Some(11), Some(VoicemailUpper)),
            Call("true", Some(11), Some(VoicemailCapital)),
            Call("true", Some(10), Some(Completed))>>}

\* call.durationSeconds || 0
DurationOrZero(call) ==
    IF call.durationSeconds = None THEN 0 ELSE call.durationSeconds[1]

\* endedReason?.toLowerCase() !== "voicemail"
NotVoicemail(call) ==
    call.endedReason = None \/ toLowerCase(call.endedReason[1]) # Voicemail

\* the filter with the threshold met at 10 seconds already
isSuccessfulFromTen(call) ==
    /\ call.successEvaluation = "true"
    /\ DurationOrZero(call) >= 10
    /\ NotVoicemail(call)

\* the filter of generateSummaryStats and of processDailyReport
isSuccessful(call) ==
    /\ call.successEvaluation = "true"
    /\ DurationOrZero(call) > 10
    /\ NotVoicemail(call)

\* a / b rounded to the nearest integer, as toFixed rounds its last digit
Rounded(a, b) == (2 * a + b) \div (2 * b)

\* generateSummaryStats: successRate in hundredths of a percent
generateSummaryStats(list) ==
    LET totalCalls == Len(list)
        successfulCalls == Cardinality({i \in DOMAIN list : isSuccessful(list[i])})
    IN  [totalCalls |-> totalCalls,
         successfulCalls |-> successfulCalls,
         successRate |-> IF totalCalls > 0
                         THEN Rounded(successfulCalls * 10000, totalCalls) ELSE 0]

\* processDailyReport: the counts and the rate printed in its email, in
\* tenths of a percent; no email for an empty list
dailyReportStats(list) ==
    LET successfulCalls == Cardinality({i \in DOMAIN list : isSuccessful(list[i])})
    IN  IF Len(list) = 0 THEN [totalCalls |-> 0]
        ELSE [totalCalls |-> Len(list),
              successfulCalls |-> successfulCalls,
              successRate |-> Rounded(successfulCalls * 1000, Len(list))]

InitReport ==
    /\ report \in {[calls |-> l] : l \in ReportLists(MaxReportCalls)}
    /\ proc = Started
    /\ paused = FALSE
    /\ mail = NoMail
    /\ instance = [p \in Procs |-> p = "server"]
    /\ jobs = <<>>
    /\ run = [p \in Procs |-> IdleRun]
    /\ records = {}
    /\ calls = {}
    /\ faults = 0
    /\ http = NoExchange
    /\ slots = NoLookup
    /\ sched = NoRun
    /\ emailQueue = <<>>
    /\ entries = NoEntries

\* a call of a generateSummaryStats that takes the records off its argument
\* as it counts them
callSummaryStatsDraining(list) ==
    [calls |-> <<>>, stats |-> generateSummaryStats(list)]

\* a call of generateSummaryStats: what it returns, and its argument after
\* the call; filter and reduce read the array and the function keeps nothing
callSummaryStats(list) ==
    [calls |-> list, stats |-> generateSummaryStats(list)]

\* the statistics of the list are computed
GenerateReport ==
    /\ DOMAIN report = {"calls"}
    /\ LET call == callSummaryStats(report.calls) IN
        report' = [given |-> report.calls,
                   calls |-> call.calls,
                   stats |-> call.stats,
                   daily |-> dailyReportStats(report.calls)]
    /\ UNCHANGED <<proc, paused, mail, instance, jobs, run, records, calls, faults,
                   http, slots, sched, emailQueue, entries>>

\* the statistics are computed once more, from the same array
GenerateAgain ==
    /\ "stats" \in DOMAIN report
    /\ "again" \notin DOMAIN report
    /\ LET call == callSummaryStats(report.calls) IN
        report' = [given |-> report.given,
                   calls |-> call.calls,
                   stats |-> report.stats,
                   daily |-> report.daily,
                   again |-> call.stats]
    /\ UNCHANGED <<proc, paused, mail, instance, jobs, run, records, calls, faults,
                   http, slots, sched, emailQueue, entries>>

NextReport ==
    \/ GenerateReport
    \/ GenerateAgain

SpecReport == InitReport /\ [][NextReport]_vars

----------------------------------------------------------------------------
(* The outer catch of CallProcessor.process taken alone, over errors of     *)
(* every message and code.                                                  *)

MaxWords == 2

ErrorWords == retryableErrors \cup {"Invalid", "failed:"}

ErrorCodes == retryableErrors \cup {Undefined, "ECONNRESET"}

ErrorMessages(n) == UNION {[1 .. k -> ErrorWords] : k \in 0 .. n}

InitCatch ==
    /\ OpsIdle
    /\ instance = [p \in Procs |-> p = "server"]
    /\ jobs = <<>>
    /\ run \in {[p \in Procs |->
                    IF p = "server"
                    THEN [pc |-> "catch", job |-> 0, start |-> 0, err |-> Err(m, c),
                          result |-> Null, raised |-> Err(m, c)]
                    ELSE IdleRun] :
                 m \in ErrorMessages(MaxWords), c \in ErrorCodes}
    /\ records = {}
    /\ calls = {}
    /\ faults = 0
    /\ http = NoExchange
    /\ slots = NoLookup
    /\ sched = NoRun
    /\ emailQueue = <<>>
    /\ entries = NoEntries

\* catch (error) of process: the error is classified and thrown again
Catch(p) ==
    /\ run[p].pc = "catch"
    /\ run' = Threw(p, run[p].err)
    /\ UNCHANGED <<aux, instance, jobs, records, calls, faults>>

NextCatch == Catch("server")

SpecCatch == InitCatch /\ [][NextCatch]_vars

----------------------------------------------------------------------------
(* One contact submitted once, followed through its retries, busy           *)
(* re-enqueues and reschedules.                                             *)

MaxStarts == 5

InitAttempts ==
    /\ OpsIdle
    /\ instance = [p \in Procs |-> p = "server"]
    /\ jobs \in {res.added : res \in {r \in BulkResponses :
                                        r.status = 200 /\ Len(r.added) = 1}}
    /\ run = [p \in Procs |-> IdleRun]
    /\ records = {}
    /\ calls = {}
    /\ faults = 0
    /\ http = NoExchange
    /\ slots = NoLookup
    /\ sched = NoRun
    /\ emailQueue = <<>>
    /\ entries = NoEntries

NextAttempts ==
    \/ Promote
    \/ DequeueWithin("server", MaxStarts)
    \/ Handler("server")

SpecAttempts == InitAttempts /\ [][NextAttempts]_vars

----------------------------------------------------------------------------
(* One contact followed on a clock.  The tenant's weeklySchedule is fixed,  *)
(* slots holds the day of the week and the time of day in milliseconds, a   *)
(* delayed job is fetched when its delay has elapsed, and the handler takes *)
(* no time.  The voice service reports busy to at most MaxBusy probes.      *)

MaxBusy == 1

MaxClockStarts == 12

MsPerDay == MinutesPerDay * MsPerMinute

InitClock ==
    /\ OpsIdle
    /\ instance = [p \in Procs |-> p = "server"]
    /\ jobs \in {res.added : res \in {r \in BulkResponses :
                                        r.status = 200 /\ Len(r.added) = 1}}
    /\ run = [p \in Procs |-> IdleRun]
    /\ records = {}
    /\ calls = {}
    /\ faults = 0
    /\ http = NoExchange
    /\ slots \in {[phase |-> "clock", weeklySchedule |-> w, day |-> d,
                    tod |-> t * MsPerMinute] :
                   w \in Schedules, d \in Days, t \in TimesOfDay}
    /\ sched = NoRun
    /\ emailQueue = <<>>
    /\ entries = NoEntries

\* the clock ms milliseconds later
After(ms) ==
    LET total == slots.tod + ms IN
    [slots EXCEPT !.day = (@ + (total \div MsPerDay)) % 7, !.tod = total % MsPerDay]

\* the delay of a job, or the backoff of its retry, elapses
Elapse ==
    \E j \in JobIds :
        /\ jobs[j].state = "delayed"
        /\ run["server"].pc = "idle"
        /\ jobs' = [jobs EXCEPT ![j].state = "waiting"]
        /\ slots' = After(IF jobs[j].attemptsMade > 0 THEN jobs[j].backoff
                          ELSE jobs[j].opts.delay)
        /\ UNCHANGED <<ops, http, sched, emailQueue, entries, instance, run, records,
                       calls, faults>>

\* User.findById and the window check, at the time of the clock
CheckWindowAt(p) ==
    /\ run[p].pc = "check"
    /\ LET tod == slots.tod \div MsPerMinute IN
        IF InsideWindow(slots.weeklySchedule, Job(p).data.assistantId, slots.day, tod)
        THEN /\ run' = [run EXCEPT ![p].pc = "probe"]
             /\ jobs' = jobs
        ELSE /\ jobs' = rescheduleForNextSlot(p, slots.weeklySchedule, slots.day, tod)
             /\ run' = Returned(p, "rescheduled")
    /\ UNCHANGED <<aux, instance, records, calls, faults>>

\* the jobs re-enqueued after a busy probe
BusyJobs == {j \in JobIds : jobs[j].parent # <<0, 0>> /\ jobs[j].opts.delay = BusyDelay}

\* isVapiBusy, and the re-enqueue when it is
ProbeBusyUpTo(p) ==
    /\ run[p].pc = "probe"
    /\ \E busy \in BOOLEAN :
        IF busy
        THEN /\ Cardinality(BusyJobs) < MaxBusy
             /\ jobs' = Append(jobs, addCallJob(Job(p).data, [delay |-> BusyDelay], RunId(p)))
             /\ run' = Returned(p, "delayed")
        ELSE /\ run' = [run EXCEPT ![p].pc = "create"]
             /\ jobs' = jobs
    /\ UNCHANGED <<aux, instance, records, calls, faults>>

HandlerAt(p) ==
    \/ CheckWindowAt(p)
    \/ ProbeBusyUpTo(p)
    \/ CreateRecord(p)
    \/ MakeCall(p)
    \/ MarkInitiated(p)
    \/ MarkFailed(p)
    \/ Finish(p)

NextClock ==
    \/ Elapse
    \/ DequeueWithin("server", MaxClockStarts)
    \/ HandlerAt("server")

SpecClock == InitClock /\ [][NextClock]_vars

SpecClockFair ==
    /\ SpecClock
    /\ WF_vars(Elapse)
    /\ WF_vars(DequeueWithin("server", MaxClockStarts))
    /\ WF_vars(HandlerAt("server"))

----------------------------------------------------------------------------
(* POST /schedule-report and the runs of the scheduler job it adds, over a  *)
(* call history of several tenants.  report is the CallData collection,     *)
(* http the exchange, sched the repeatable job and what its last run read.  *)

MaxHistory == 2

MaxReportRuns == 2

\* the userId written in the $match of processDailyReport
DailyReportUserId == "user_2x0DhdwrWfE9PpFSljdOd3aOvYG"

\* the tenants of the User collection
Tenants == {"u1", "u2", DailyReportUserId}

\* a CallData document: its tenant, and whether it started today
CallDocs == {[userId |-> u, today |-> t] : u \in Tenants, t \in BOOLEAN}

Histories(n) == UNION {[1 .. k -> CallDocs] : k \in 0 .. n}

\* req.body of POST /schedule-report
ReportBodies ==
    {[type |-> t, schedule |-> c, clerkId |-> u] :
        t \in {None, Some("daily"), Some("weekly"), Some("monthly"), Some("yearly")},
        c \in {None, Some("0 7 * * *")},
        u \in {None} \cup {Some(x) : x \in Tenants \cup {"u9"}}}

InitTenantReport ==
    /\ report \in {[calls |-> l] : l \in Histories(MaxHistory)}
    /\ proc = Started
    /\ paused = FALSE
    /\ mail = NoMail
    /\ instance = [p \in Procs |-> p = "server"]
    /\ jobs = <<>>
    /\ run = [p \in Procs |-> IdleRun]
    /\ records = {}
    /\ calls = {}
    /\ faults = 0
    /\ http = NoExchange
    /\ slots = NoLookup
    /\ sched = NoRun
    /\ emailQueue = <<>>
    /\ entries = NoEntries

\* POST /schedule-report: 400, 404, or a repeatable scheduler job for clerkId
ScheduleReport ==
    /\ http = NoExchange
    /\ \E body \in ReportBodies :
        IF body.type = None \/ body.schedule = None \/ body.clerkId = None
        THEN /\ http' = [status |-> 400]
             /\ sched' = sched
        ELSE IF body.clerkId[1] \notin Tenants
        THEN /\ http' = [status |-> 404]
             /\ sched' = sched
        ELSE /\ http' = [status |-> 200]
             /\ sched' = [type |-> "scheduled",
                          name |-> <<body.type[1], "-report-", body.clerkId[1]>>,
                          data |-> [type |-> <<body.type[1], "_report">>,
                                    userId |-> body.clerkId[1]],
                          repeat |-> body.schedule[1],
                          runs |-> 0]
    /\ UNCHANGED <<ops, instance, jobs, run, records, calls, faults, slots, emailQueue,
                   entries>>

\* the $match of processDailyReport's aggregate
dailyMatch(doc) == doc.userId = DailyReportUserId /\ doc.today

\* a run of the repeatable job: SchedulerProcessor.process dispatches on
\* job.data.type; read is what the run took from CallData
RunScheduledReport ==
    /\ "data" \in DOMAIN sched
    /\ sched.runs < MaxReportRuns
    /\ LET kind == sched.data.type[1] IN
        sched' = [type |-> sched.type, name |-> sched.name, data |-> sched.data,
                  repeat |-> sched.repeat, runs |-> sched.runs + 1,
                  threw |-> kind \notin {"daily", "weekly", "monthly"},
                  read |-> IF kind = "daily"
                           THEN SelectSeq(report.calls, dailyMatch)
                           ELSE <<>>]
    /\ UNCHANGED <<ops, instance, jobs, run, records, calls, faults, http, slots,
                   emailQueue, entries>>

NextTenantReport ==
    \/ ScheduleReport
    \/ RunScheduledReport

SpecTenantReport == InitTenantReport /\ [][NextTenantReport]_vars

----------------------------------------------------------------------------
(* Properties *)

RecordsOf(id) == {r \in records : r.id = id}

CallsOf(id) == {c \in calls : c.id = id}

Successors(id) == {k \in JobIds : jobs[k].parent = id}

Ended(p, result) == run[p].pc = "done" /\ run[p].result = result

\* C1: at most one call job is in flight system-wide: the handler runs of
\* two call jobs never overlap.
C1_AtMostOneInFlight ==
    Cardinality({p \in Procs : run[p].pc # "idle"}) <= 1

\* C2: a run that finds no valid current window (it ends 'rescheduled') has
\* created no CallAttemptRecord and placed no external call, and the job it
\* re-enqueued carries the contact and the priority of the processed job.
C2_RescheduleKeepsContactAndPriority ==
    \A p \in Procs :
        Ended(p, "rescheduled") =>
            /\ RecordsOf(RunId(p)) = {}
            /\ CallsOf(RunId(p)) = {}
            /\ \A k \in Successors(RunId(p)) :
                /\ jobs[k].data.contact = Job(p).data.contact
                /\ jobs[k].opts.priority = Job(p).opts.priority

\* C2 witness: a job of priority 2.00 was rescheduled and has its successor.
C2_Witness ==
    \E p \in Procs :
        /\ Ended(p, "rescheduled")
        /\ Job(p).opts.priority = 200
        /\ Successors(RunId(p)) # {}

\* C3: every run that ends 'rescheduled' has re-enqueued a successor job for
\* the same contact, whatever the weekly schedule.
C3_RescheduledIsReenqueued ==
    \A p \in Procs :
        Ended(p, "rescheduled") =>
            \E k \in Successors(RunId(p)) : jobs[k].data.contact = Job(p).data.contact

\* C4: a run that finds the voice service busy (it ends 'delayed') has
\* re-enqueued a job with the same payload and a delay of 15000 ms, has
\* created no CallAttemptRecord and placed no external call, and the
\* re-enqueued job starts with no attempt made.
C4_BusyRequeue ==
    \A p \in Procs :
        Ended(p, "delayed") =>
            /\ RecordsOf(RunId(p)) = {}
            /\ CallsOf(RunId(p)) = {}
            /\ Successors(RunId(p)) # {}
            /\ \A k \in Successors(RunId(p)) :
                /\ jobs[k].data = Job(p).data
                /\ jobs[k].opts.delay = 15000
                /\ jobs[k].starts = 0 => jobs[k].attemptsMade = 0 /\ jobs[k].state # "active"

\* C4 witness: a run ended 'delayed' on a job that had failed once before.
C4_Witness ==
    \E p \in Procs :
        /\ Ended(p, "delayed")
        /\ Job(p).attemptsMade = 1
        /\ \E k \in Successors(RunId(p)) : jobs[k].state = "delayed"

\* C5: the pending_initiation record of an attempt exists before the external
\* call is placed, and a run whose external call succeeded ends 'completed'
\* with its record initiated and stamped.
C5_PendingThenCallThenInitiated ==
    /\ \A c \in calls : RecordsOf(c.id) # {}
    /\ \A p \in Procs :
        (run[p].pc = "done" /\ \E c \in CallsOf(RunId(p)) : c.ok) =>
            /\ run[p].result = "completed"
            /\ \A r \in RecordsOf(RunId(p)) : r.status = "initiated" /\ r.completedAt

\* C6: the status of a record only moves pending_initiation -> initiated or
\* pending_initiation -> failed: it never returns to pending_initiation and
\* never changes between initiated and failed.
C6_StatusMonotonic ==
    \A r \in records :
        r.hist \in {<<"pending_initiation">>,
                    <<"pending_initiation", "initiated">>,
                    <<"pending_initiation", "failed">>}

\* C7: a job whose run failed with a non-retryable dispatch error is
\* permanently failed: it is not put back for another attempt.
C7_PermanentFailureNotRetried ==
    \A j \in JobIds :
        jobs[j].failedReason = PermanentFailure(ErrInvalid).message =>
            jobs[j].state = "failed"

\* C8: a run whose external call failed with a retryable error has marked its
\* record failed with that error's message and throws that error unchanged.
C8_RetryablePropagatesUnchanged ==
    \A p \in Procs :
        \A c \in CallsOf(RunId(p)) :
            (run[p].pc = "done" /\ ~c.ok /\ isRetryableError(c.error)) =>
                /\ run[p].result = "threw"
                /\ run[p].err = c.error
                /\ \A r \in RecordsOf(c.id) :
                    r.status = "failed" /\ r.reason = c.error.message

\* C9: once the external call of a job has been placed successfully, no later
\* run of that job (a retry or a redelivery) places the call again.
C9_NoDoubleDial ==
    [][\A c2 \in calls' \ calls :
        ~\E c1 \in calls : c1.ok /\ c1.id[1] = c2.id[1] /\ c1.id[2] < c2.id[2]]_vars

\* C10 as stated: whenever no run stands between its create and its call,
\* there are as many CallAttemptRecords as invocations of the external call.
C10_RecordsEqualCalls ==
    (\A p \in Procs : run[p].pc # "call") => Cardinality(records) = Cardinality(calls)

\* C10 amended: every invocation of the external call has a record of its own,
\* created before it, so the records are at least as many as the calls; a run
\* that ended 'rescheduled' or 'delayed' created none.
C10_EveryCallHasItsRecord ==
    /\ \A c \in calls : \E r \in records : r.id = c.id /\ r.number = c.contact.number
    /\ Cardinality(calls) <= Cardinality(records)
    /\ \A p \in Procs :
        (Ended(p, "rescheduled") \/ Ended(p, "delayed")) => RecordsOf(RunId(p)) = {}
    /\ \A j \in JobIds :
        jobs[j].returnvalue \in {"rescheduled", "delayed"} =>
            RecordsOf(<<j, jobs[j].starts>>) = {}

\* C10 witness: a job was called in two runs, each with its record, and
\* the run of another job ended 'rescheduled'.
C10_Witness ==
    /\ \E c1, c2 \in calls : c1.id[1] = c2.id[1] /\ c1.id[2] # c2.id[2]
    /\ Cardinality(records) = 2
    /\ \E p \in Procs : Ended(p, "rescheduled")

\* the job of the bulk enqueue from which job k descends
RECURSIVE Root(_)
Root(k) == IF jobs[k].parent = <<0, 0>> THEN k ELSE Root(jobs[k].parent[1])

\* the jobs of the contacts submitted before that of job k in its request
EarlierInRequest(k) == {Root(k) - d : d \in 1 .. jobs[Root(k)].req.index}

\* C12: contacts of one bulk enqueue are attempted in submission order: when
\* the external call is invoked for a contact, it has been invoked before for
\* every contact submitted before it in the request.
C12_AttemptedInSubmissionOrder ==
    [][\A c \in calls' \ calls :
        \A e \in EarlierInRequest(c.id[1]) :
            \E c0 \in calls : Root(c0.id[1]) = e]_vars

\* C14 as stated: every job on the call queue, successors included, has a
\* contact whose name and number are non-empty after trimming, and has
\* priority 1 when its request supplied no priority.
C14_PriorityOneWhenUnset ==
    \A k \in JobIds :
        /\ trim(jobs[k].data.contact.name) # <<>>
        /\ trim(jobs[k].data.contact.number) # <<>>
        /\ jobs[Root(k)].req.priority = None => jobs[k].opts.priority = 100

\* C14 amended: the name and number are trimmed and non-empty, and a job whose
\* request supplied no priority has priority 1 + 0.01 i, i the index of its
\* contact among the valid contacts of the request.
C14_ContactTrimmedPriorityFromOne ==
    \A k \in JobIds :
        /\ trim(jobs[k].data.contact.name) = jobs[k].data.contact.name
        /\ trim(jobs[k].data.contact.number) = jobs[k].data.contact.number
        /\ jobs[k].data.contact.name # <<>>
        /\ jobs[k].data.contact.number # <<>>
        /\ jobs[Root(k)].req.priority = None =>
            jobs[k].opts.priority = 100 + jobs[Root(k)].req.index

\* C14 witness: the successor of a job whose request supplied no priority and
\* gave the name and number with blanks around them.
C14_Witness ==
    \E k \in JobIds :
        /\ jobs[k].parent # <<0, 0>>
        /\ jobs[Root(k)].req.priority = None
        /\ jobs[k].data.contact = [name |-> <<"alice">>, number |-> <<"+15550001">>]

\* the jobs the last request added, in order
Added == SubSeq(jobs, Len(http.before) + 1, Len(jobs))

Answered == http.status # 0

\* C11: a bulk enqueue of N valid contacts with base priority p and base
\* delay d adds N jobs, the job of index i with delay d + 1000 i ms and
\* priority p + 0.01 i.
C11_StaggeredDelaysAndPriorities ==
    (Answered /\ http.status = 200) =>
        /\ Len(Added) = Len(SelectSeq(http.body.contacts.items, isValidContact))
        /\ \A i \in 1 .. Len(Added) :
            /\ Added[i].opts.delay = Default(http.body.delay, 0) + 1000 * (i - 1)
            /\ Added[i].opts.priority = Default(http.body.priority, 100) + (i - 1)

\* the request has one of the configuration errors, the tenant lookup having
\* answered where the error is found after it
ConfigurationError ==
    \/ http.body.clerkId = None
    \/ http.body.assistantId = None
    \/ ~http.body.contacts.isArray
    \/ http.user.outcome = "null"
    \/ http.user.outcome = "found" /\ ~(http.user.sid /\ http.user.authToken /\ http.user.phoneNumber)
    \/ /\ http.user.outcome = "found"
       /\ \A i \in 1 .. Len(http.body.contacts.items) :
            \/ http.body.contacts.items[i].kind = "null"
            \/ ~isValidContact(http.body.contacts.items[i])

\* C13: a request with a configuration error is answered 4xx and leaves the
\* call queue as it was.
C13_ConfigurationErrorsRejected ==
    (Answered /\ ConfigurationError) =>
        /\ http.status \in 400 .. 499
        /\ jobs = http.before

\* the entries of the assistant on the day o days after the lookup's day
SlotsAhead(o) ==
    LET daySchedule == slots.weeklySchedule[(slots.day + o) % 7] IN
    {daySchedule[i] : i \in {k \in 1 .. Len(daySchedule) :
                                daySchedule[k].assistantId = slots.assistantId}}

\* minutes from now to the starts of the assistant's slots, today up to the
\* same weekday next week
StartsFromNow ==
    UNION {{o * 1440 + sl.callTimeStart - slots.tod : sl \in SlotsAhead(o)} : o \in 0 .. 7}

\* minutes from now to the start of the returned slot on its own date
ReturnedStartFromNow ==
    LET n == slots.next[1] IN
    (((n.day - slots.day + 6) % 7) + 1) * 1440 + n.callTimeStart - slots.tod

\* C15: when the assistant has a slot in the week, findNextAvailableSlot
\* returns a slot that starts strictly after now, and no slot of the assistant
\* starts between now and it.
C15_NextSlotIsEarliest ==
    (slots.phase = "next" /\ \E o \in 0 .. 6 : SlotsAhead(o) # {}) =>
        /\ slots.next # None
        /\ ReturnedStartFromNow > 0
        /\ \A m \in StartsFromNow : m > 0 => ReturnedStartFromNow <= m

\* C16: the delay of a rescheduled job is the time from now to the start of
\* the returned slot on that slot's own date, and is never negative.
C16_DelayReachesReturnedSlot ==
    (slots.phase = "next" /\ slots.next # None) =>
        /\ slots.delayMs[1] = ReturnedStartFromNow * 60000
        /\ slots.delayMs[1] >= 0

\* C17: the current-slot lookup returns the first entry of the current day
\* whose assistant matches, none when the day has no entry or no matching
\* one, whatever overlaps or repeats; a job whose matching slot does not
\* contain now is rescheduled.
C17_FirstMatchWins ==
    slots.phase \in {"current", "next"} =>
        LET daySchedule == slots.weeklySchedule[slots.day]
            matching == {i \in 1 .. Len(daySchedule) :
                            daySchedule[i].assistantId = slots.assistantId}
        IN  /\ matching = {} => slots.current = None /\ slots.outcome = "rescheduled"
            /\ matching # {} =>
                /\ slots.current # None
                /\ \E i \in matching :
                    /\ \A k \in matching : i <= k
                    /\ slots.current[1] = daySchedule[i]
                /\ slots.outcome = "rescheduled" <=>
                    ~(slots.current[1].callTimeStart <= slots.tod
                      /\ slots.tod < slots.current[1].callTimeEnd)

\* C17 witness: two slots of the assistant today, the first not containing
\* now, the second containing it: the first is returned, the job rescheduled.
C17_Witness ==
    /\ slots.phase = "current"
    /\ Len(slots.weeklySchedule[slots.day]) = 2
    /\ slots.current = Some(slots.weeklySchedule[slots.day][1])
    /\ slots.weeklySchedule[slots.day][2].callTimeStart <= slots.tod
    /\ slots.tod < slots.weeklySchedule[slots.day][2].callTimeEnd
    /\ slots.outcome = "rescheduled"

\* the EmailJobs the last scheduler run added
Enqueued == SubSeq(emailQueue, Len(sched.before) + 1, Len(emailQueue))

\* C18: every run of a report scheduler job that does not fail enqueues
\* exactly one EmailJob, a daily report over no records included.
C18_ReportEnqueuesOneEmail ==
    (sched.type \in {"daily_report", "weekly_report", "monthly_report"}
     /\ sched.status = "completed") => Len(Enqueued) = 1

\* C19: the health check raises the stuck-jobs alert exactly when the call
\* queue's active count is above 10, the high-failure alert exactly when its
\* failed count is above 50, the db alert exactly when the store probe fails,
\* and enqueues one alert EmailJob when an alert fired and none otherwise.
C19_HealthAlerts ==
    sched.type = "health_check" =>
        LET fired ==
                {a \in {"High number of active jobs detected",
                        "High number of failed call jobs",
                        "Database connectivity issues"} :
                    \/ a = "High number of active jobs detected" /\ sched.input.stats.active > 10
                    \/ a = "High number of failed call jobs" /\ sched.input.stats.failed > 50
                    \/ a = "Database connectivity issues" /\ ~sched.input.dbOk}
        IN  /\ fired # {} => Enqueued = <<[type |-> "alert", alerts |-> fired]>>
            /\ fired = {} => Enqueued = <<>>

\* C19 witness: active 15 and failed 60 with the store reachable gave both
\* alerts in one email.
C19_Witness ==
    /\ sched.type = "health_check"
    /\ sched.input.stats = [active |-> 15, failed |-> 60]
    /\ sched.input.dbOk
    /\ Len(Enqueued) = 1
    /\ Enqueued[1].alerts = {"High number of active jobs detected",
                             "High number of failed call jobs"}

\* entries a sweep removed from queue q, by state
Removed(q, field) == sched.before[q][field] - entries[q][field]

\* C20: a sweep removes from each queue the completed and the failed entries
\* older than 24 h, at most 100 a queue, and no other entry.
C20_CleanupRemovesOldFinished ==
    sched.type = "cleanup" =>
        \A q \in QueueNames :
            /\ Removed(q, "completedOld") + Removed(q, "failedOld") <= 100
            /\ sched.before[q].completedOld + sched.before[q].failedOld <= 100 =>
                entries[q].completedOld = 0 /\ entries[q].failedOld = 0
            /\ \A f \in {"completedNew", "failedNew", "waiting", "delayed", "active"} :
                Removed(q, f) = 0

\* C21: QueueManager.getInstance is idempotent: whatever the calls from
\* startServer, HTTP handlers and processors, the queues, workers and
\* observers are constructed exactly once in the process and every call
\* returns the same instance.
C21_SingleInstance ==
    /\ proc.built <= 1
    /\ proc.gets > 0 => proc.built = 1 /\ proc.returned = {1}
    /\ instance["server"] <=> proc.built = 1

C21_Witness == proc.gets = MaxGets /\ proc.built = 1 /\ proc.returned = {1}

\* C22: QueueManager.shutdown leaks nothing when a teardown step throws: once
\* shutdown has settled, by resolving or by rejecting because the close of a
\* worker, observer or queue handle failed, the broker connection is closed.
C22_BrokerClosedWhenStepThrows ==
    proc.shutdown \in {"resolved", "rejected"} => proc.broker = "closed"

\* C23: QueueManager.shutdown tears down in order: no event observer is
\* closed before every worker is, no queue handle before every observer, and
\* the broker connection is closed after every queue handle.
C23_OrderedTeardown ==
    /\ proc.closed \cap Observers # {} => Workers \subseteq proc.closed
    /\ proc.closed \cap Handles # {} => Observers \subseteq proc.closed
    /\ proc.broker = "closed" => Handles \subseteq proc.closed

\* C28: a process that had constructed its QueueManager and has ended after
\* a SIGTERM, a SIGINT, an uncaught exception or an unhandled rejection
\* reached it had QueueManager.shutdown invoked first, whichever of the four
\* events it was.
C28_EventsReachShutdown ==
    proc.built > 0 /\ proc.events # {} /\ proc.exit # None
        => proc.shutdown # "none"

\* C29: when the server accepts requests, the five recurring scheduler jobs
\* are registered on the scheduler queue, each once, with their expressions.
C29_AllFiveBeforeListening ==
    proc.listening => proc.registered = RecurringJobs

\* C24: while the call queue is paused no call job goes from waiting to
\* active; a job in flight, under a pause as well, runs until its handler has
\* settled; and a job waiting in an unpaused queue is fetched, unless the
\* queue is paused again or the handler invocations of the model are used up.
C24_PauseHoldsDequeue ==
    /\ [][paused => \A j \in JobIds :
                        jobs[j].state = "waiting" => jobs'[j].state # "active"]_vars
    /\ (paused /\ run["server"].pc # "idle") ~> (run["server"].pc = "idle")
    /\ \A j \in 1 .. MaxJobs :
        (~paused /\ j \in Waiting)
            ~> (j \notin Waiting \/ paused \/ TotalStarts >= MaxRuns)

C24_Witness ==
    /\ paused
    /\ run["server"].pc = "done"
    /\ Waiting # {}

\* the job a worker holds the lock of
Leased(j) == \E p \in Procs : run[p].pc # "idle" /\ run[p].job = j /\ HoldsLock(p)

\* C25: the dashboard's retry and remove never affect a leased job: a step
\* of one of them leaves every leased job as it was and every handler
\* invocation where it was, and the job a step removes, or takes from failed
\* back to waiting, is not a leased one.
C25_AdminSparesLeasedJob ==
    [][\A j \in JobIds :
        /\ Leased(j) /\ http' # http => jobs'[j] = jobs[j] /\ run' = run
        /\ \/ jobs'[j].state = "removed" /\ jobs[j].state # "removed"
           \/ jobs'[j].state = "waiting" /\ jobs[j].state = "failed"
           => ~Leased(j) /\ run' = run]_vars

C25_Witness ==
    /\ http.status = 500
    /\ http.op = "remove"
    /\ Leased(http.id)
    /\ run["server"].pc = "done"

C27_SchedulerFailureRethrown ==
    sched.type # "none" =>
        /\ sched.type = "unknown" => sched.threw
        /\ sched.threw =>
            /\ sched.status = "failed"
            /\ sched.state = IF sched.attemptsMade < Attempts THEN "delayed" ELSE "failed"
            /\ Alive /\ proc.shutdown = "none"
            /\ ENABLED SchedulerNext

C27_Witness ==
    /\ sched.type = "health_check"
    /\ sched.status = "completed"
    /\ sched.prior = "failed"

\* the call records of a list that are successful as the reports define it:
\* success flag true, more than 10 seconds, and a terminal reason that is
\* not voicemail in any spelling of its letters' case
Successful(list) ==
    {i \in DOMAIN list :
        /\ list[i].successEvaluation = "true"
        /\ list[i].durationSeconds \in {Some(11), Some(30)}
        /\ list[i].endedReason \notin
               {Some(Voicemail), Some(VoicemailCapital), Some(VoicemailUpper)}}

\* C30: in the summary statistics and in the daily report, successfulCalls
\* is the number of records whose success flag is true, whose duration is
\* above 10 seconds and whose terminal reason is not voicemail whatever its
\* case, and the success rate is successfulCalls / totalCalls as a
\* percentage rounded to its last digit, 0 for an empty list.
C30_SuccessfulCallsAndRate ==
    "stats" \in DOMAIN report =>
        LET n == Len(report.calls)
            k == Cardinality(Successful(report.calls))
        IN  /\ report.stats.totalCalls = n
            /\ report.stats.successfulCalls = k
            /\ n = 0 => report.stats.successRate = 0
            /\ n > 0 => /\ 2 * (report.stats.successRate * n - k * 10000) <= n
                        /\ 2 * (k * 10000 - report.stats.successRate * n) <= n
            /\ n > 0 => /\ report.daily.successfulCalls = k
                        /\ 2 * (report.daily.successRate * n - k * 1000) <= n
                        /\ 2 * (k * 1000 - report.daily.successRate * n) <= n

C30_Witness ==
    /\ "stats" \in DOMAIN report
    /\ Len(report.calls) = 3
    /\ report.stats.successfulCalls = 1
    /\ report.stats.successRate = 3333
    /\ report.daily.successRate = 333

C32_RetryableOrPermanent ==
    \A p \in Procs :
        (run[p].pc = "done" /\ "raised" \in DOMAIN run[p]) =>
            LET e == run[p].raised
                named == \E w \in {"VAPI_BUSY", "NETWORK_ERROR", "TEMPORARY_FAILURE",
                                   "RATE_LIMITED"} :
                            \/ \E i \in DOMAIN e.message : e.message[i] = w
                            \/ e.code = w
            IN  /\ run[p].result = "threw"
                /\ named => run[p].err = e
                /\ ~named => /\ run[p].err.message = <<"Permanent", "failure:">> \o e.message
                             /\ run[p].err.code = Undefined

C32_Witness ==
    /\ run["server"].pc = "done"
    /\ "raised" \in DOMAIN run["server"]
    /\ run["server"].raised = Err(<<"Invalid", "failed:">>, "RATE_LIMITED")
    /\ run["server"].err = run["server"].raised

\* C33: for a contact submitted once, no more than 3 CallAttemptRecords are
\* ever created, over the runs of its job and of the jobs re-enqueued for it
\* after a busy probe or a closed window.
C33_AtMostThreeAttempts ==
    \A k \in JobIds :
        jobs[k].parent = <<0, 0>> =>
            Cardinality({r \in records : Root(r.id[1]) = k}) <= 3

\* a record of the contact of job k that reached initiated or failed, or a
\* job of the contact that failed for good
AttemptOutcome(k) ==
    \/ \E r \in records : Root(r.id[1]) = k /\ r.status \in {"initiated", "failed"}
    \/ \E j \in JobIds : Root(j) = k /\ jobs[j].state = "failed"

\* the assistant has a slot on some day of the week
HasSlot(weeklySchedule, assistantId) ==
    \E d \in Days : FirstMatch(weeklySchedule[d], assistantId) # None

\* C34: a call job enqueued for an assistant with a slot in the week
\* eventually has a CallAttemptRecord in initiated or failed, or fails for
\* good, when the worker is scheduled fairly and the voice service is busy
\* only finitely often: the contact is not rescheduled or delayed forever.
C34_EventuallyAttempted ==
    (Len(jobs) = 1 /\ HasSlot(slots.weeklySchedule, jobs[1].data.assistantId))
        ~> AttemptOutcome(1)

C34_Witness ==
    /\ Len(jobs) >= 1
    /\ "weeklySchedule" \in DOMAIN slots
    /\ HasSlot(slots.weeklySchedule, jobs[1].data.assistantId)
    /\ AttemptOutcome(1)
    /\ \E j \in JobIds : jobs[j].returnvalue = "rescheduled"
    /\ BusyJobs # {}

\* C35: once the mail service has accepted the email of a job, the run has
\* returned completed, the job is completed and is not run again: the email
\* is sent exactly once.
C35_AcceptedEmailCompletes ==
    mail.status # "none" /\ mail.sent >= 1 =>
        /\ mail.status = "completed"
        /\ mail.state = "completed"
        /\ mail.sent = 1

\* C36: the attachment files of an email job that were there when the job
\* was first run are there whenever an attempt of the job can start: no
\* attempt finds a file missing that an earlier failed attempt deleted.
C36_FilesPresentAtEveryAttempt ==
    mail.status # "none" /\ mail.state \in {"waiting", "delayed"} =>
        (PathsOf(mail.job) \cap mail.found) \subseteq mail.disk

\* C37: QueueManager.shutdown is called at most once in the life of a
\* process, whatever events reach it, those raised while a shutdown is in
\* progress included.
C37_ShutdownAtMostOnce == proc.shutdowns <= 1

\* the run of p ended with the error of the tenant lookup, wrapped or not
TenantMissing(p) ==
    /\ run[p].pc = "done"
    /\ run[p].result = "threw"
    /\ Len(run[p].err.message) >= Len(ErrUser.message)
    /\ SubSeq(run[p].err.message,
              Len(run[p].err.message) - Len(ErrUser.message) + 1,
              Len(run[p].err.message)) = ErrUser.message

\* C38: a run that finds no tenant record for its job ends with the
\* permanent failure of 'User not found', which is not a retryable error, and
\* has created no CallAttemptRecord, placed no external call and enqueued no
\* successor job.
C38_MissingTenantFailsClean ==
    \A p \in Procs :
        TenantMissing(p) =>
            /\ run[p].err = PermanentFailure(ErrUser)
            /\ ~isRetryableError(run[p].err)
            /\ RecordsOf(RunId(p)) = {}
            /\ CallsOf(RunId(p)) = {}
            /\ Successors(RunId(p)) = {}

C38_Witness ==
    /\ TenantMissing("server")
    /\ records # {}
    /\ Len(jobs) = MaxJobs

\* C39: every CallData record a run of a report scheduled through
\* POST /schedule-report for tenant T reads has the tenant id T.
C39_ReportReadsOwnTenantOnly ==
    ("read" \in DOMAIN sched) =>
        \A i \in 1 .. Len(sched.read) : sched.read[i].userId = sched.data.userId

====
